---- MODULE Spec2Model ----
(***************************************************************************)
(* A model of the SCH backend (src/auth.py, src/main.py): the users and    *)
(* posts collections, the signed tokens that have left the server, the     *)
(* clock, and a pool of request workers.  Every HTTP handler is a sequence *)
(* of atomic steps, one per database operation it issues, so that requests *)
(* running at the same time interleave exactly where the code lets them.   *)
(***************************************************************************)
EXTENDS Integers, Sequences, FiniteSets, TLC

VARIABLES
    users,      \* the users collection: a sequence of documents, _id = index
    posts,      \* the posts collection: a function from the stored _ids to documents
    nextPostId, \* the next fresh post _id (ObjectIds are never reused)
    tokens,     \* the correctly signed tokens that have reached a client
    clock,      \* datetime.utcnow(), in hours
    workers,    \* the request workers: position in the handler and its locals
    response,   \* the response the server returned last
    hist        \* scenario log: the responses the scripted clients got, in order

vars == <<users, posts, nextPostId, tokens, clock, workers, response, hist>>

----------------------------------------------------------------------------
(* Bounds of the model *)

MaxUsers == 2
MaxPosts == 1
MaxFeedPosts == 2
MaxTokens == 2
MaxComments == 2
SmallTicks == 1
NumWorkers == 2
NumClients == 3

(* Program constants *)

SessionTTL == 24
ResetTTL == 1

MaxClock == SessionTTL + SmallTicks

Workers == 1..NumWorkers
Emails == {"a@x.com", "b@x.com"}
Passwords == {"pw1", "pw2"}
Names == {"Ann", "Bob"}

NoUser == 0
NoPost == 0
NoToken == [user_id |-> NoUser, exp |-> 0, reset |-> FALSE, sig |-> "none"]
NoForm == [title |-> "", description |-> "", category |-> "", tags |-> <<>>, file |-> "none"]
NoReg == [name |-> "", email |-> "", password |-> ""]
NoResp == [status |-> 0, detail |-> ""]

\* A worker between requests.
IdleWorker ==
    [pc |-> "idle", op |-> "none", tok |-> NoToken, user |-> NoUser,
     cu |-> NoReg, pid |-> NoPost, form |-> NoForm, text |-> "",
     liked |-> FALSE, reg |-> NoReg]

Resp(status, detail) == [status |-> status, detail |-> detail]

\* The handler of worker w returns (or raises) r.
Finish(w, r) ==
    /\ workers' = [workers EXCEPT ![w] = IdleWorker]
    /\ response' = r

\* The handler of worker w moves on with its locals changed to rec.
Goto(w, rec) ==
    /\ workers' = [workers EXCEPT ![w] = rec]
    /\ UNCHANGED response

----------------------------------------------------------------------------
(* Password hashing and tokens *)

\* pwd_context.hash: a one-way hash, never equal to the plaintext.
HashPassword(pw) == <<"bcrypt", pw>>

\* pwd_context.verify
VerifyPassword(pw, hashed) == hashed = HashPassword(pw)

\* create_access_token: data plus exp = now + ttl, signed with JWT_SECRET.
CreateAccessToken(uid, reset, ttl) ==
    [user_id |-> uid, exp |-> clock + ttl, reset |-> reset, sig |-> "ok"]

\* A token that was not signed with the server secret.
ForgedToken == [user_id |-> 1, exp |-> MaxClock, reset |-> FALSE, sig |-> "bad"]

\* jwt.decode with verify_exp switched off.
JwtDecodeNoExpiry(t) == t.sig = "ok"

\* jwt.decode: the signature verifies and the token is unexpired.
JwtDecodeOK(t) == t.sig = "ok" /\ clock <= t.exp

\* The tokens a client can present.
Presentable == tokens \cup {ForgedToken}

----------------------------------------------------------------------------
(* The users collection *)

UserIds == 1..Len(users)

\* users.find_one({"email": email}): the first match in natural order, or NoUser.
GetUserByEmail(email) ==
    LET hits == {i \in UserIds : users[i].email = email}
    IN IF hits = {} THEN NoUser ELSE CHOOSE i \in hits : \A j \in hits : i <= j

\* users.find_one({"_id": id})
GetUserById(uid) == IF uid \in UserIds THEN uid ELSE NoUser

\* authenticate_user: the user, or NoUser for an unknown email or a wrong password.
AuthenticateUser(email, password) ==
    LET u == GetUserByEmail(email)
    IN IF u = NoUser THEN NoUser
       ELSE IF ~VerifyPassword(password, users[u].password) THEN NoUser
       ELSE u

\* get_current_user_sync: the resolved user id, or NoUser for 401.
GetCurrentUserSync(t) ==
    IF ~JwtDecodeOK(t) THEN NoUser ELSE GetUserById(t.user_id)

----------------------------------------------------------------------------
(* src/auth.py: the handlers that need no session *)

\* The document register stores for (name, email, password).
NewUser(name, email, password) ==
    [name |-> name, email |-> email, password |-> HashPassword(password),
     isOnline |-> "unset", lastSeen |-> -1]

\* register, up to the duplicate check (one find_one).
RegisterFind(w, name, email, password) ==
    /\ workers[w].pc = "idle"
    /\ Len(users) + Cardinality({v \in Workers : workers[v].pc = "register_insert"}) < MaxUsers
    /\ IF GetUserByEmail(email) # NoUser
         THEN Finish(w, Resp(400, "Email already registered"))
         ELSE Goto(w, [IdleWorker EXCEPT !.pc = "register_insert", !.op = "register",
                          !.reg = [name |-> name, email |-> email, password |-> password]])
    /\ UNCHANGED <<users, posts, nextPostId, tokens, clock, hist>>

\* register, from the hash to the response (one insert_one).
RegisterInsert(w) ==
    /\ workers[w].pc = "register_insert"
    /\ Len(users) < MaxUsers
    /\ users' = Append(users, NewUser(workers[w].reg.name, workers[w].reg.email,
                                       workers[w].reg.password))
    /\ Finish(w, [status |-> 200, detail |-> "user", id |-> Len(users) + 1,
                   email |-> workers[w].reg.email])
    /\ UNCHANGED <<posts, nextPostId, tokens, clock, hist>>

\* The token t leaves the server (a response body, a mail).
Deliver(t) == tokens' = tokens \cup {t}

CanDeliver(t) == t \in tokens \/ Cardinality(tokens) < MaxTokens

\* login
Login(w, email, password) ==
    /\ workers[w].pc = "idle"
    /\ IF email = "" \/ password = ""
         THEN /\ Finish(w, Resp(400, "Email and password are required"))
              /\ UNCHANGED tokens
         ELSE LET user == AuthenticateUser(email, password)
                  access_token == CreateAccessToken(user, FALSE, SessionTTL)
              IN IF user = NoUser
                 THEN /\ Finish(w, Resp(400, "Incorrect email or password"))
                      /\ UNCHANGED tokens
                 ELSE /\ CanDeliver(access_token)
                      /\ Deliver(access_token)
                      /\ Finish(w, [status |-> 200, detail |-> "bearer",
                                     access_token |-> access_token])
    /\ UNCHANGED <<users, posts, nextPostId, clock, hist>>

ForgotMessage == "If this email is registered, a reset link has been sent."

\* forgot_password; gateway is what the mail configuration and the SMTP server do:
\* "unset" (EMAIL_USER or EMAIL_PASS missing), "sent", or "smtp_error" (smtplib raises).
ForgotPassword(w, email, gateway) ==
    /\ workers[w].pc = "idle"
    /\ LET user == GetUserByEmail(email)
           reset_token == CreateAccessToken(user, TRUE, ResetTTL)
       IN IF user = NoUser
          THEN /\ Finish(w, Resp(200, ForgotMessage))
               /\ UNCHANGED tokens
          ELSE CASE gateway = "unset" ->
                      /\ Finish(w, Resp(200, ForgotMessage))
                      /\ UNCHANGED tokens
                 [] gateway = "sent" ->
                      /\ CanDeliver(reset_token)
                      /\ Deliver(reset_token)
                      /\ Finish(w, Resp(200, ForgotMessage))
                 [] OTHER ->
                      /\ Finish(w, Resp(500, "Internal Server Error"))
                      /\ UNCHANGED tokens
    /\ UNCHANGED <<users, posts, nextPostId, clock, hist>>

\* reset_password without the check of the reset claim.
ResetPasswordAnyToken(w, t, password) ==
    /\ workers[w].pc = "idle"
    /\ IF ~JwtDecodeOK(t)
         THEN /\ Finish(w, Resp(400, "Invalid or expired token"))
              /\ UNCHANGED users
         ELSE IF GetUserById(t.user_id) = NoUser
         THEN /\ Finish(w, Resp(400, "Invalid token"))
              /\ UNCHANGED users
         ELSE /\ users' = [users EXCEPT ![t.user_id].password = HashPassword(password)]
              /\ Finish(w, Resp(200, "Password reset successful"))
    /\ UNCHANGED <<posts, nextPostId, tokens, clock, hist>>

\* reset_password
ResetPassword(w, t, password) ==
    /\ workers[w].pc = "idle"
    /\ IF ~JwtDecodeOK(t)
         THEN /\ Finish(w, Resp(400, "Invalid or expired token"))
              /\ UNCHANGED users
         ELSE IF ~t.reset \/ GetUserById(t.user_id) = NoUser
         THEN /\ Finish(w, Resp(400, "Invalid token"))
              /\ UNCHANGED users
         ELSE /\ users' = [users EXCEPT ![t.user_id].password = HashPassword(password)]
              /\ Finish(w, Resp(200, "Password reset successful"))
    /\ UNCHANGED <<posts, nextPostId, tokens, clock, hist>>

----------------------------------------------------------------------------
(* The identity resolver and the protected handlers of src/auth.py *)

\* Depends(get_current_user_sync) of a protected operation op: 401, or the
\* handler starts with current_user bound to the resolved document.
Begin(w, op, t, pid, form, text) ==
    /\ workers[w].pc = "idle"
    /\ LET u == GetCurrentUserSync(t)
       IN IF u = NoUser
          THEN Finish(w, Resp(401, "Could not validate credentials"))
          ELSE Goto(w, [IdleWorker EXCEPT !.pc = op, !.op = op, !.tok = t, !.user = u,
                           !.cu = [name |-> users[u].name, email |-> users[u].email,
                                   password |-> ""],
                           !.pid = pid, !.form = form, !.text = text])
    /\ UNCHANGED <<users, posts, nextPostId, tokens, clock, hist>>

\* The outward form of a user document: _id as given, password deleted.
UserOut(uid) ==
    [status |-> 200, detail |-> "user", id |-> uid,
     name |-> users[uid].name, email |-> users[uid].email]

\* me
Me(w) ==
    /\ workers[w].pc = "me"
    /\ Finish(w, [status |-> 200, detail |-> "user", id |-> workers[w].user,
                   name |-> workers[w].cu.name, email |-> workers[w].cu.email])
    /\ UNCHANGED <<users, posts, nextPostId, tokens, clock, hist>>

\* The absent (None) field of a partial update.
None == "None"

\* update_profile, up to the write (one update_one); text is the name field.
UpdateProfile(w) ==
    /\ workers[w].pc = "update_profile"
    /\ IF workers[w].text = None
         THEN /\ Finish(w, Resp(400, "No updates provided"))
              /\ UNCHANGED users
         ELSE /\ users' = [users EXCEPT ![workers[w].user].name = workers[w].text]
              /\ Goto(w, [workers[w] EXCEPT !.pc = "update_profile_read"])
    /\ UNCHANGED <<posts, nextPostId, tokens, clock, hist>>

\* update_profile, the read back (get_user_by_id) and the response.
UpdateProfileRead(w) ==
    /\ workers[w].pc = "update_profile_read"
    /\ IF GetUserById(workers[w].user) = NoUser
         THEN Finish(w, Resp(404, "User not found"))
         ELSE Finish(w, UserOut(workers[w].user))
    /\ UNCHANGED <<users, posts, nextPostId, tokens, clock, hist>>

\* logout
Logout(w) ==
    /\ workers[w].pc = "logout"
    /\ users' = [users EXCEPT ![workers[w].user].isOnline = "false",
                                ![workers[w].user].lastSeen = clock]
    /\ Finish(w, Resp(200, "Logged out successfully"))
    /\ UNCHANGED <<posts, nextPostId, tokens, clock, hist>>

\* Time passes: d hours.
Tick(d) ==
    /\ clock + d <= MaxClock
    /\ d = 1 => clock % SessionTTL < SmallTicks
    /\ clock' = clock + d
    /\ UNCHANGED <<users, posts, nextPostId, tokens, workers, response, hist>>

----------------------------------------------------------------------------
(* src/main.py: helpers of the post handlers *)

PostIds == DOMAIN posts

\* posts.find_one({"_id": pid}) finds a document.
Stored(pid) == pid \in PostIds

\* x in a list
InSeq(x, seq) == \E i \in 1..Len(seq) : seq[i] = x

\* $push where $addToSet was meant: x is appended even when it is there.
AddToSetAsPush(seq, x) == Append(seq, x)

\* $addToSet: append x unless it is already there.
AddToSet(seq, x) == IF InSeq(x, seq) THEN seq ELSE Append(seq, x)

\* A $pull whose value matches no element (an ObjectId against strings).
PullNothing(seq, x) == seq

\* $pull: remove every occurrence of x.
Pull(seq, x) == SelectSeq(seq, LAMBDA y : y # x)

\* $push: append x.
Push(seq, x) == Append(seq, x)

\* The index of the first c in s, or 0.
IndexOf(s, c) ==
    IF InSeq(c, s) THEN CHOOSE i \in 1..Len(s) : s[i] = c /\ \A j \in 1..(i - 1) : s[j] # c
    ELSE 0

RECURSIVE Split(_, _)
\* str.split(sep) on a string given as the sequence of its characters.
Split(s, sep) ==
    LET i == IndexOf(s, sep)
    IN IF i = 0 THEN <<s>>
       ELSE <<SubSeq(s, 1, i - 1)>> \o Split(SubSeq(s, i + 1, Len(s)), sep)

RECURSIVE Strip(_)
\* str.strip()
Strip(s) ==
    IF s = <<>> THEN s
    ELSE IF Head(s) = " " THEN Strip(Tail(s))
    ELSE IF s[Len(s)] = " " THEN Strip(SubSeq(s, 1, Len(s) - 1))
    ELSE s

\* [t.strip() for t in tags.split(",") if t.strip()]
ParseTags(tags) ==
    LET parts == Split(tags, ",")
        stripped == [i \in 1..Len(parts) |-> Strip(parts[i])]
    IN SelectSeq(stripped, LAMBDA t : t # <<>>)

\* The coarse type tag the handlers derive from the upload's content type.
FileType(content_type) ==
    CASE content_type = "application/pdf" -> "pdf"
      [] content_type = "image/png" -> "png"
      [] content_type = "" -> None
      [] OTHER -> content_type

\* The attachment fields after a successful upload of the form's file.
Attachment(form) ==
    [file_url |-> "https://media/f", file_type |-> FileType(form.file),
     original_name |-> "f"]

NoAttachment == [file_url |-> None, file_type |-> None, original_name |-> None]

\* post_to_dict: ids and dates made printable; the author's name and email are
\* looked up in users only when the stored snapshot lacks one of them.
PostToDict(pid, post) ==
    LET missing == post.user_name = "" \/ post.user_email = ""
        known == post.user_id \in UserIds
    IN [id |-> pid, user_id |-> post.user_id, title |-> post.title,
        description |-> post.description, category |-> post.category,
        tags |-> post.tags, file_url |-> post.file_url, file_type |-> post.file_type,
        original_name |-> post.original_name, created_at |-> post.created_at,
        likes |-> post.likes, comments |-> post.comments,
        user_name |-> IF ~missing THEN post.user_name
                      ELSE IF known THEN users[post.user_id].name ELSE "Unknown",
        user_email |-> IF ~missing THEN post.user_email
                       ELSE IF known THEN users[post.user_id].email ELSE ""]

\* The posts collection with the document of pid added or replaced.
PutPost(pid, post) ==
    [q \in PostIds \cup {pid} |-> IF q = pid THEN post ELSE posts[q]]

\* The posts collection without pid.
DropPost(pid) == [q \in PostIds \ {pid} |-> posts[q]]

----------------------------------------------------------------------------
(* src/main.py: the post handlers, one step per database operation *)

\* create_post: the upload (when a file is sent), insert_one, the response.
CreatePost(w, upload) ==
    /\ workers[w].pc = "create_post"
    /\ LET form == workers[w].form
           att == IF form.file = "none" THEN NoAttachment ELSE Attachment(form)
           post_doc == [user_id |-> workers[w].user,
                        title |-> form.title, description |-> form.description,
                        category |-> form.category, tags |-> ParseTags(form.tags),
                        file_url |-> att.file_url, file_type |-> att.file_type,
                        original_name |-> att.original_name,
                        created_at |-> clock, likes |-> <<>>, comments |-> <<>>,
                        user_name |-> workers[w].cu.name,
                        user_email |-> workers[w].cu.email]
       IN IF form.file # "none" /\ upload = "fail"
          THEN /\ Finish(w, Resp(500, "Internal Server Error"))
               /\ UNCHANGED <<posts, nextPostId>>
          ELSE /\ posts' = PutPost(nextPostId, post_doc)
               /\ nextPostId' = nextPostId + 1
               /\ Finish(w, [status |-> 200, detail |-> "post", id |-> nextPostId,
                              likes |-> post_doc.likes])
    /\ UNCHANGED <<users, tokens, clock, hist>>

\* like_post, the first find_one: 404, or the branch is chosen from the copy read.
LikeFind(w) ==
    /\ workers[w].pc = "like_post"
    /\ IF ~Stored(workers[w].pid)
         THEN Finish(w, Resp(404, "Post not found"))
         ELSE Goto(w, [workers[w] EXCEPT !.pc = "like_post_update",
                          !.liked = ~InSeq(workers[w].user, posts[workers[w].pid].likes)])
    /\ UNCHANGED <<users, posts, nextPostId, tokens, clock, hist>>

\* A like written with $set of a fresh list instead of $addToSet.
LikeWriteOverwrite(likes, user, liked) ==
    IF liked THEN <<user>> ELSE Pull(likes, user)

\* The likes list after the update_one of like_post by user on the list likes.
LikeWrite(likes, user, liked) ==
    IF liked THEN AddToSet(likes, user) ELSE Pull(likes, user)

\* like_post, the update_one ($addToSet or $pull); it matches nothing when the
\* post is gone.
LikeUpdate(w) ==
    /\ workers[w].pc = "like_post_update"
    /\ LET pid == workers[w].pid
       IN IF Stored(pid)
          THEN posts' = [posts EXCEPT ![pid].likes =
                            LikeWrite(posts[pid].likes, workers[w].user, workers[w].liked)]
          ELSE UNCHANGED posts
    /\ Goto(w, [workers[w] EXCEPT !.pc = "like_post_return"])
    /\ UNCHANGED <<users, nextPostId, tokens, clock, hist>>

\* The response of like_post after its second find_one.
LikeResponse(w) ==
    [status |-> 200, detail |-> "like", liked |-> workers[w].liked,
     likes |-> IF Stored(workers[w].pid) THEN posts[workers[w].pid].likes ELSE <<>>]

\* like_post, the second find_one and the response.
LikeReturn(w) ==
    /\ workers[w].pc = "like_post_return"
    /\ Finish(w, LikeResponse(w))
    /\ UNCHANGED <<users, posts, nextPostId, tokens, clock, hist>>

\* comment_post, the first find_one.
CommentFind(w) ==
    /\ workers[w].pc = "comment_post"
    /\ IF ~Stored(workers[w].pid)
         THEN Finish(w, Resp(404, "Post not found"))
         ELSE /\ Len(posts[workers[w].pid].comments)
                   + Cardinality({v \in Workers : workers[v].pc = "comment_post_update"})
                   < MaxComments
              /\ Goto(w, [workers[w] EXCEPT !.pc = "comment_post_update"])
    /\ UNCHANGED <<users, posts, nextPostId, tokens, clock, hist>>

\* A comment pushed at position 0 instead of the end.
CommentWriteAtHead(comments, comment) == <<comment>> \o comments

\* The comments list after the update_one of comment_post.
CommentWrite(comments, comment) == Push(comments, comment)

\* comment_post, the comment object and the update_one ($push).
CommentUpdate(w) ==
    /\ workers[w].pc = "comment_post_update"
    /\ LET pid == workers[w].pid
           comment == [user_id |-> workers[w].user, text |-> workers[w].text,
                       created_at |-> clock]
       IN IF Stored(pid)
          THEN /\ Len(posts[pid].comments) < MaxComments
               /\ posts' = [posts EXCEPT ![pid].comments =
                               CommentWrite(posts[pid].comments, comment)]
          ELSE UNCHANGED posts
    /\ Goto(w, [workers[w] EXCEPT !.pc = "comment_post_return"])
    /\ UNCHANGED <<users, nextPostId, tokens, clock, hist>>

\* comment_post, the second find_one and the response.
CommentReturn(w) ==
    /\ workers[w].pc = "comment_post_return"
    /\ Finish(w, [status |-> 200, detail |-> "comments",
                   comments |-> IF Stored(workers[w].pid)
                                THEN posts[workers[w].pid].comments ELSE <<>>])
    /\ UNCHANGED <<users, posts, nextPostId, tokens, clock, hist>>

\* The ownership check left out.
IsAuthorAnyone(post, user) == TRUE

\* The requester may edit or delete the post: it is the post's author.
IsAuthor(post, user) == post.user_id = user

\* update_post, the find_one and the checks of existence and ownership.
UpdateFind(w) ==
    /\ workers[w].pc = "update_post"
    /\ IF ~Stored(workers[w].pid)
         THEN Finish(w, Resp(404, "Post not found"))
         ELSE IF ~IsAuthor(posts[workers[w].pid], workers[w].user)
         THEN Finish(w, Resp(403, "Not authorized to edit this post"))
         ELSE Goto(w, [workers[w] EXCEPT !.pc = "update_post_update"])
    /\ UNCHANGED <<users, posts, nextPostId, tokens, clock, hist>>

\* update_fields written with replace_one instead of $set: what the update does
\* not name is lost.
UpdateWriteReplace(post, form) ==
    [post EXCEPT !.title = form.title, !.description = form.description,
                 !.category = form.category, !.tags = ParseTags(form.tags),
                 !.likes = <<>>, !.comments = <<>>]

\* The document after update_post's $set of update_fields.
UpdateWrite(post, form) ==
    LET base == [post EXCEPT !.title = form.title, !.description = form.description,
                             !.category = form.category, !.tags = ParseTags(form.tags)]
    IN IF form.file = "none" THEN base
       ELSE [base EXCEPT !.file_url = Attachment(form).file_url,
                         !.file_type = Attachment(form).file_type,
                         !.original_name = Attachment(form).original_name]

\* update_post writing title, description, category and tags before it uploads.
UpdateSetWriteFirst(w, upload) ==
    /\ workers[w].pc = "update_post_update"
    /\ LET pid == workers[w].pid
           form == workers[w].form
       IN /\ IF Stored(pid)
               THEN posts' = [posts EXCEPT ![pid] = UpdateWrite(posts[pid], form)]
               ELSE UNCHANGED posts
          /\ IF form.file # "none" /\ upload = "fail"
               THEN Finish(w, Resp(500, "Internal Server Error"))
               ELSE Goto(w, [workers[w] EXCEPT !.pc = "update_post_return"])
    /\ UNCHANGED <<users, nextPostId, tokens, clock, hist>>

\* update_post, the upload (when a file is sent) and the update_one ($set); the
\* update matches nothing when the post is gone.
UpdateSet(w, upload) ==
    /\ workers[w].pc = "update_post_update"
    /\ LET pid == workers[w].pid
           form == workers[w].form
       IN IF form.file # "none" /\ upload = "fail"
          THEN /\ Finish(w, Resp(500, "Internal Server Error"))
               /\ UNCHANGED posts
          ELSE /\ IF Stored(pid)
                    THEN posts' = [posts EXCEPT ![pid] = UpdateWrite(posts[pid], form)]
                    ELSE UNCHANGED posts
               /\ Goto(w, [workers[w] EXCEPT !.pc = "update_post_return"])
    /\ UNCHANGED <<users, nextPostId, tokens, clock, hist>>

\* update_post, the second find_one and post_to_dict, which raises on None.
UpdateReturn(w) ==
    /\ workers[w].pc = "update_post_return"
    /\ IF Stored(workers[w].pid)
         THEN Finish(w, [status |-> 200, detail |-> "post", id |-> workers[w].pid,
                         likes |-> posts[workers[w].pid].likes])
         ELSE Finish(w, Resp(500, "Internal Server Error"))
    /\ UNCHANGED <<users, posts, nextPostId, tokens, clock, hist>>

\* delete_post, the find_one and the checks of existence and ownership.
DeleteFind(w) ==
    /\ workers[w].pc = "delete_post"
    /\ IF ~Stored(workers[w].pid)
         THEN Finish(w, Resp(404, "Post not found"))
         ELSE IF ~IsAuthor(posts[workers[w].pid], workers[w].user)
         THEN Finish(w, Resp(403, "Not authorized to delete this post"))
         ELSE Goto(w, [workers[w] EXCEPT !.pc = "delete_post_delete"])
    /\ UNCHANGED <<users, posts, nextPostId, tokens, clock, hist>>

\* delete_post, the delete_one and the 204.
DeleteOne(w) ==
    /\ workers[w].pc = "delete_post_delete"
    /\ posts' = DropPost(workers[w].pid)
    /\ Finish(w, Resp(204, ""))
    /\ UNCHANGED <<users, nextPostId, tokens, clock, hist>>

----------------------------------------------------------------------------
(* The identity service on an empty database *)

Init ==
    /\ users = <<>>
    /\ posts = <<>>
    /\ nextPostId = 1
    /\ tokens = {}
    /\ clock = 0
    /\ workers = [w \in Workers |-> IdleWorker]
    /\ response = NoResp
    /\ hist = <<>>

PasswordInputs == Passwords \cup {""}

Next ==
    \/ \E w \in Workers, email \in Emails, password \in PasswordInputs :
          RegisterFind(w, "Ann", email, password)
    \/ \E w \in Workers : RegisterInsert(w)
    \/ \E w \in Workers, email \in Emails \cup {""}, password \in PasswordInputs :
          Login(w, email, password)
    \/ \E w \in Workers, email \in Emails, gateway \in {"unset", "sent", "smtp_error"} :
          ForgotPassword(w, email, gateway)
    \/ \E w \in Workers, t \in Presentable, password \in PasswordInputs :
          ResetPassword(w, t, password)
    \/ \E w \in Workers, t \in Presentable : Begin(w, "me", t, NoPost, NoForm, "")
    \/ \E w \in Workers : Me(w)

Spec == Init /\ [][Next]_vars

----------------------------------------------------------------------------
(* Sessions over time: registered users, one request at a time, the clock *)
(* running past the expiry of the tokens.                                  *)

\* One user has registered.
InitSession ==
    /\ users = <<NewUser("Ann", "a@x.com", "pw1")>>
    /\ posts = <<>>
    /\ nextPostId = 1
    /\ tokens = {}
    /\ clock = 0
    /\ workers = [w \in Workers |-> IdleWorker]
    /\ response = NoResp
    /\ hist = <<>>

AuthOps == {"me", "update_profile", "logout"}

NextSession ==
    \/ \E email \in Emails, password \in Passwords : Login(1, email, password)
    \/ \E email \in Emails, gateway \in {"unset", "sent", "smtp_error"} :
          ForgotPassword(1, email, gateway)
    \/ \E t \in Presentable, password \in Passwords : ResetPassword(1, t, password)
    \/ \E op \in AuthOps, t \in Presentable, name \in Names \cup {None} :
          Begin(1, op, t, NoPost, NoForm, IF op = "update_profile" THEN name ELSE "")
    \/ Me(1)
    \/ UpdateProfile(1)
    \/ UpdateProfileRead(1)
    \/ Logout(1)
    \/ \E d \in {1, SessionTTL} : Tick(d)

SpecSession == InitSession /\ [][NextSession]_vars

----------------------------------------------------------------------------
(* The feed: list_posts and list_user_posts *)

\* seq lists every element of the set ids exactly once.
IsPermutation(seq, ids) ==
    /\ Len(seq) = Cardinality(ids)
    /\ \A p \in ids : InSeq(p, seq)

\* The sort with direction 1: oldest first.
SortedByCreatedAtAsc(ids) ==
    {seq \in [1..Cardinality(ids) -> ids] :
        /\ IsPermutation(seq, ids)
        /\ \A i, j \in 1..Len(seq) :
              i < j => posts[seq[i]].created_at <= posts[seq[j]].created_at}

\* posts.find(...).sort("created_at", -1) over the documents ids: every order
\* of them that is descending in created_at (the store fixes no order among
\* documents with equal created_at).
SortedByCreatedAtDesc(ids) ==
    {seq \in [1..Cardinality(ids) -> ids] :
        /\ IsPermutation(seq, ids)
        /\ \A i, j \in 1..Len(seq) :
              i < j => posts[seq[i]].created_at >= posts[seq[j]].created_at}

\* What list_posts can return: post_to_dict of every document, newest first.
ListPosts ==
    {[i \in 1..Len(order) |-> PostToDict(order[i], posts[order[i]])] :
        order \in SortedByCreatedAtDesc(PostIds)}

\* What list_user_posts(user_id) can return.
ListUserPosts(user_id) ==
    {[i \in 1..Len(order) |-> PostToDict(order[i], posts[order[i]])] :
        order \in SortedByCreatedAtDesc({p \in PostIds : posts[p].user_id = user_id})}

\* list_posts (no session needed): one find.
ListPostsReq(w) ==
    /\ workers[w].pc = "idle"
    /\ \E body \in ListPosts :
          Finish(w, [status |-> 200, detail |-> "posts", body |-> body])
    /\ UNCHANGED <<users, posts, nextPostId, tokens, clock, hist>>

\* list_user_posts (no session needed): one find.
ListUserPostsReq(w, user_id) ==
    /\ workers[w].pc = "idle"
    /\ \E body \in ListUserPosts(user_id) :
          Finish(w, [status |-> 200, detail |-> "user_posts", body |-> body])
    /\ UNCHANGED <<users, posts, nextPostId, tokens, clock, hist>>

----------------------------------------------------------------------------
(* The post feed: two registered users holding session tokens, requests    *)
(* running concurrently.                                                   *)

\* The token login returned to user uid at time 0.
SessionTokenAt0(uid) ==
    [user_id |-> uid, exp |-> SessionTTL, reset |-> FALSE, sig |-> "ok"]

InitPosts ==
    /\ users = <<NewUser("Ann", "a@x.com", "pw1"), NewUser("Bob", "b@x.com", "pw2")>>
    /\ posts = <<>>
    /\ nextPostId = 1
    /\ tokens = {SessionTokenAt0(1), SessionTokenAt0(2)}
    /\ clock = 0
    /\ workers = [w \in Workers |-> IdleWorker]
    /\ response = NoResp
    /\ hist = <<>>

FormA ==
    [title |-> "t1", description |-> "d1", category |-> "c1",
     tags |-> <<"a", ",", " ", "b">>, file |-> "none"]

FormB ==
    [title |-> "t2", description |-> "", category |-> "c2",
     tags |-> <<" ", ",", "b">>, file |-> "application/pdf"]

Forms == {FormA, FormB}

Uploads == {"ok", "fail"}

\* The number of workers at position pc.
CountAt(pc) == Cardinality({v \in Workers : workers[v].pc = pc})

NextPosts ==
    \/ \E w \in Workers, t \in Presentable, form \in Forms :
          /\ nextPostId + CountAt("create_post") <= MaxPosts
          /\ Begin(w, "create_post", t, NoPost, form, "")
    \/ \E w \in Workers, upload \in Uploads : CreatePost(w, upload)
    \/ \E w \in Workers, t \in Presentable, pid \in 1..MaxPosts :
          Begin(w, "like_post", t, pid, NoForm, "")
    \/ \E w \in Workers : LikeFind(w)
    \/ \E w \in Workers : LikeUpdate(w)
    \/ \E w \in Workers : LikeReturn(w)
    \/ \E w \in Workers, t \in Presentable, pid \in 1..MaxPosts :
          Begin(w, "comment_post", t, pid, NoForm, "hi")
    \/ \E w \in Workers : CommentFind(w)
    \/ \E w \in Workers : CommentUpdate(w)
    \/ \E w \in Workers : CommentReturn(w)
    \/ \E w \in Workers, t \in Presentable, pid \in 1..MaxPosts, form \in Forms :
          Begin(w, "update_post", t, pid, form, "")
    \/ \E w \in Workers : UpdateFind(w)
    \/ \E w \in Workers, upload \in Uploads : UpdateSet(w, upload)
    \/ \E w \in Workers : UpdateReturn(w)
    \/ \E w \in Workers, t \in Presentable, pid \in 1..MaxPosts :
          Begin(w, "delete_post", t, pid, NoForm, "")
    \/ \E w \in Workers : DeleteFind(w)
    \/ \E w \in Workers : DeleteOne(w)

SpecPosts == InitPosts /\ [][NextPosts]_vars

----------------------------------------------------------------------------
(* The feed read back: one request at a time, posts created at different   *)
(* times, listed after every change.                                       *)

NextFeed ==
    \/ \E t \in Presentable, form \in Forms :
          /\ nextPostId <= MaxFeedPosts
          /\ Begin(1, "create_post", t, NoPost, form, "")
    \/ \E upload \in Uploads : CreatePost(1, upload)
    \/ \E t \in Presentable, pid \in 1..MaxFeedPosts, form \in Forms :
          Begin(1, "update_post", t, pid, form, "")
    \/ UpdateFind(1)
    \/ \E upload \in Uploads : UpdateSet(1, upload)
    \/ UpdateReturn(1)
    \/ \E t \in Presentable, pid \in 1..MaxFeedPosts :
          Begin(1, "delete_post", t, pid, NoForm, "")
    \/ DeleteFind(1)
    \/ DeleteOne(1)
    \/ ListPostsReq(1)
    \/ \E user_id \in UserIds : ListUserPostsReq(1, user_id)
    \/ Tick(1)

SpecFeed == InitPosts /\ [][NextFeed]_vars

----------------------------------------------------------------------------
(* Likes by scripted clients: every client is a different user holding a   *)
(* session token, and issues its like_post calls on post 1 one after the   *)
(* other; the clients run concurrently.  hist keeps the likes of the post  *)
(* before any call and, per client, the responses it got, in order.        *)

MaxCalls == 2

Clients == 1..NumClients

RECURSIVE SetToSeq(_)
\* The elements of a set of numbers in ascending order.
SetToSeq(S) ==
    IF S = {} THEN <<>>
    ELSE LET m == CHOOSE x \in S : \A y \in S : x <= y
         IN <<m>> \o SetToSeq(S \ {m})

\* The email client c registered with.
ClientEmail(c) == "user" \o ToString(c) \o "@x.com"

\* The document create_post stores for the author and the form at time 0.
NewPost(author, form) ==
    [user_id |-> author, title |-> form.title, description |-> form.description,
     category |-> form.category, tags |-> ParseTags(form.tags),
     file_url |-> None, file_type |-> None, original_name |-> None,
     created_at |-> 0, likes |-> <<>>, comments |-> <<>>,
     user_name |-> "Ann", user_email |-> ClientEmail(author)]

InitLikes ==
    /\ users = [c \in Clients |-> NewUser("Ann", ClientEmail(c), "pw1")]
    /\ \E liked \in SUBSET Clients :
          /\ posts = <<[NewPost(1, FormA) EXCEPT !.likes = SetToSeq(liked)]>>
          /\ hist = [before |-> SetToSeq(liked), calls |-> [c \in Clients |-> <<>>]]
    /\ nextPostId = 2
    /\ tokens = {SessionTokenAt0(c) : c \in Clients}
    /\ clock = 0
    /\ workers = [c \in Clients |-> IdleWorker]
    /\ response = NoResp

\* The calls client c has completed, in order.
CallsOf(c) == hist.calls[c]

\* like_post's second find_one and response, logged for the client.
LikeReturnLogged(c) ==
    /\ workers[c].pc = "like_post_return"
    /\ Finish(c, LikeResponse(c))
    /\ hist' = [hist EXCEPT !.calls[c] = Append(@, LikeResponse(c))]
    /\ UNCHANGED <<users, posts, nextPostId, tokens, clock>>

NextLikes ==
    \/ \E c \in Clients :
          /\ Len(CallsOf(c)) < MaxCalls
          /\ Begin(c, "like_post", SessionTokenAt0(c), 1, NoForm, "")
    \/ \E c \in Clients : LikeFind(c)
    \/ \E c \in Clients : LikeUpdate(c)
    \/ \E c \in Clients : LikeReturnLogged(c)

SpecLikes == InitLikes /\ [][NextLikes]_vars

----------------------------------------------------------------------------
(* Claims about sessions (under SpecSession) *)

ProtectedOps ==
    {"me", "update_profile", "logout", "create_post", "like_post", "comment_post",
     "update_post", "delete_post"}

\* C1: no protected operation runs on behalf of a token that carries the reset
\* flag: the identity resolver refuses such a token with 401, so no worker is
\* ever inside a protected handler holding a reset token.
C1_ResetTokenIsNoSession ==
    \A w \in Workers :
        workers[w].op \in ProtectedOps => ~workers[w].tok.reset

----------------------------------------------------------------------------
(* Claims about registration, login and password reset (under Spec) *)

\* C2: reset_password presented with a correctly signed, unexpired token that
\* carries no reset flag (a login token) answers 400 "Invalid token" and leaves
\* every user document as it was; and whenever any step changes a stored
\* password hash, that step is a reset_password with a correctly signed token
\* with reset = TRUE whose subject is that user, and no other user changes.
C2_SessionTokenFailsReset ==
    [][ /\ \A w \in Workers, t \in Presentable, pw \in PasswordInputs :
              (ResetPassword(w, t, pw) /\ JwtDecodeOK(t) /\ ~t.reset)
                  => (response' = Resp(400, "Invalid token") /\ users' = users)
        /\ \A u \in UserIds :
              users'[u].password # users[u].password
                  => \E w \in Workers, t \in tokens, pw \in PasswordInputs :
                        /\ ResetPassword(w, t, pw)
                        /\ t.reset /\ t.user_id = u
                        /\ users' = [users EXCEPT ![u].password = HashPassword(pw)]
      ]_vars

\* C2 witness: a login token exists and reset_password has just refused a token
\* for carrying no reset flag, with two users stored.
C2_Witness ==
    /\ response = Resp(400, "Invalid token")
    /\ \E t \in tokens : ~t.reset
    /\ Len(users) = 2

\* C9: no two user documents hold the same email.
C9_EmailUnique ==
    \A i, j \in UserIds : i # j => users[i].email # users[j].email

\* C10: for every stored user, a login with that user's email and current
\* (non-empty) password answers 200 with a token that the identity resolver
\* resolves to that same user.
C10_LoginRoundTrip ==
    [][ \A w \in Workers, u \in UserIds, pw \in Passwords :
            (users[u].password = HashPassword(pw) /\ Login(w, users[u].email, pw))
                => /\ response'.status = 200
                   /\ GetCurrentUserSync(response'.access_token) = u
      ]_vars

----------------------------------------------------------------------------
(* Claims about likes by concurrent clients (under SpecLikes) *)

SetOf(seq) == {seq[i] : i \in 1..Len(seq)}

\* C3: a client that was not in likes before and has completed its one
\* like_post call is in the post's likes, whatever the other clients' calls
\* did in between; and in every step the membership of a user v in likes
\* changes only by the update_one of v's own like_post.
C3_NoLostLikes ==
    /\ [](\A c \in Clients :
            (Len(CallsOf(c)) = 1 /\ workers[c].pc = "idle" /\ ~InSeq(c, hist.before))
                => InSeq(c, posts[1].likes))
    /\ [][ \A v \in Clients :
              (InSeq(v, posts'[1].likes) # InSeq(v, posts[1].likes)) => LikeUpdate(v)
         ]_vars

\* C3 witness: no client was in likes, every client has completed exactly one
\* call, at least one of them answered while another's like was already there,
\* and all of them are in likes.
C3_Witness ==
    /\ hist.before = <<>>
    /\ \A c \in Clients : Len(CallsOf(c)) = 1 /\ workers[c].pc = "idle"
    /\ SetOf(posts[1].likes) = Clients
    /\ \E c \in Clients : Len(CallsOf(c)[1].likes) = NumClients

\* C4: for a client b that was not in likes, its first like_post answers
\* liked = TRUE with b in the returned likes and its second, run after the
\* first, answers liked = FALSE with b absent; once the second has answered and
\* b has started no further call, b is not in likes, and when no other client
\* has called, likes is as a set what it was before.
C4_LikeUnlikeRoundTrip ==
    \A b \in Clients :
        (Len(CallsOf(b)) >= 2 /\ ~InSeq(b, hist.before))
            => /\ CallsOf(b)[1].liked /\ InSeq(b, CallsOf(b)[1].likes)
               /\ ~CallsOf(b)[2].liked /\ ~InSeq(b, CallsOf(b)[2].likes)
               /\ (Len(CallsOf(b)) = 2 /\ workers[b].pc = "idle")
                     => /\ ~InSeq(b, posts[1].likes)
                        /\ (\A c \in Clients \ {b} :
                                Len(CallsOf(c)) = 0 /\ workers[c].pc = "idle")
                              => SetOf(posts[1].likes) = SetOf(hist.before)

\* C4 witness: a client not in likes has liked and unliked a post that others
\* had liked, alone.
C4_Witness ==
    \E b \in Clients :
        /\ Len(CallsOf(b)) = 2 /\ workers[b].pc = "idle"
        /\ ~InSeq(b, hist.before) /\ hist.before # <<>>
        /\ \A c \in Clients \ {b} : Len(CallsOf(c)) = 0 /\ workers[c].pc = "idle"
        /\ CallsOf(b)[1].liked /\ ~CallsOf(b)[2].liked

----------------------------------------------------------------------------
(* Claims about posts under concurrent requests (under SpecPosts) *)

NoDuplicates(seq) == \A i, j \in 1..Len(seq) : i # j => seq[i] # seq[j]

\* C5: in every reachable state the likes of every post hold each user id at
\* most once, and a post is created with no likes.
C5_LikesHoldEachUserOnce ==
    /\ [](\A p \in PostIds : NoDuplicates(posts[p].likes))
    /\ [][ \A p \in PostIds' \ PostIds : posts'[p].likes = <<>> ]_vars

\* C5 witness: two like_post calls of the same user on the same post have both
\* taken the like branch and both written, and the user is in likes once.
C5_Witness ==
    /\ workers[1].pc = "like_post_return" /\ workers[2].pc = "like_post_return"
    /\ workers[1].user = workers[2].user /\ workers[1].pid = workers[2].pid
    /\ workers[1].liked /\ workers[2].liked
    /\ Stored(workers[1].pid)
    /\ posts[workers[1].pid].likes = <<workers[1].user>>

\* The fields of a post that update_post writes.
Content(post) ==
    [title |-> post.title, description |-> post.description,
     category |-> post.category, tags |-> post.tags, file_url |-> post.file_url,
     file_type |-> post.file_type, original_name |-> post.original_name]

\* C6: update_post and delete_post on a stored post by a user who is not its
\* author answer 403 and leave the posts collection as it was; and whenever a
\* step changes title, description, category, tags or attachment of a post, or
\* removes it, that step is the write of an update_post or delete_post request
\* on that post whose resolved user is the post's author.
C6_OnlyAuthorMutates ==
    [][ /\ \A w \in Workers :
              ((UpdateFind(w) \/ DeleteFind(w)) /\ Stored(workers[w].pid)
                  /\ posts[workers[w].pid].user_id # workers[w].user)
                  => (response'.status = 403 /\ posts' = posts)
        /\ \A p \in PostIds :
              (p \notin PostIds' \/ Content(posts'[p]) # Content(posts[p]))
                  => \E w \in Workers :
                        /\ workers[w].user = posts[p].user_id
                        /\ workers[w].pid = p
                        /\ (DeleteOne(w) \/ \E upload \in Uploads : UpdateSet(w, upload))
      ]_vars

\* C6 witness: an update_post by a user who is not the author has just been
\* refused while the post is stored.
C6_Witness ==
    /\ response = Resp(403, "Not authorized to edit this post")
    /\ PostIds # {}

IsPrefix(s, t) == Len(s) <= Len(t) /\ SubSeq(t, 1, Len(s)) = s

\* C8: in every step, for every post stored before and after it, the comments
\* before are a prefix of the comments after; and the update_one of a
\* comment_post on a stored post appends exactly that request's comment.
C8_CommentsAppendOnly ==
    [][ /\ \A p \in PostIds \cap PostIds' :
              IsPrefix(posts[p].comments, posts'[p].comments)
        /\ \A w \in Workers :
              (CommentUpdate(w) /\ Stored(workers[w].pid))
                  => posts'[workers[w].pid].comments =
                        Append(posts[workers[w].pid].comments,
                               [user_id |-> workers[w].user, text |-> workers[w].text,
                                created_at |-> clock])
      ]_vars

\* C8 witness: two comment_post calls by different users ran concurrently on
\* one post (both passed the existence check before either wrote) and both
\* comments are stored.
C8_Witness ==
    \E p \in PostIds :
        /\ Len(posts[p].comments) = 2
        /\ posts[p].comments[1].user_id # posts[p].comments[2].user_id
        /\ workers[1].pc = "comment_post_return" /\ workers[2].pc = "comment_post_return"

----------------------------------------------------------------------------
(* Claims about the feed (under SpecFeed) *)

\* body lists the documents ids, each exactly once, newest first.
NewestFirst(body, ids) ==
    /\ Len(body) = Cardinality(ids)
    /\ \A p \in ids : \E i \in 1..Len(body) : body[i].id = p
    /\ \A i, j \in 1..Len(body) : i < j => body[i].created_at >= body[j].created_at

\* The number of stored posts created strictly later than p.
Rank(p) == Cardinality({q \in PostIds : posts[q].created_at > posts[p].created_at})

\* C7: list_posts answers with every stored post exactly once, newest first,
\* and list_user_posts likewise with the user's posts; after the write of an
\* update_post by the author every listing shows the post with the new title,
\* description, category and tags, at the same rank; after the delete of a
\* post no listing shows it, and a deleted post never comes back.
C7_FeedReflectsWrites ==
    [][ /\ ListPostsReq(1) => NewestFirst(response'.body, PostIds)
        /\ \A u \in UserIds :
              ListUserPostsReq(1, u)
                  => NewestFirst(response'.body, {p \in PostIds : posts[p].user_id = u})
        /\ \A upload \in Uploads :
              (UpdateSet(1, upload) /\ workers'[1].pc = "update_post_return"
                  /\ Stored(workers[1].pid))
                  => /\ ListPosts' # {}
                     /\ \A body \in ListPosts' : \E i \in 1..Len(body) :
                           /\ body[i].id = workers[1].pid
                           /\ body[i].title = workers[1].form.title
                           /\ body[i].description = workers[1].form.description
                           /\ body[i].category = workers[1].form.category
                           /\ body[i].tags = ParseTags(workers[1].form.tags)
                     /\ Rank(workers[1].pid)' = Rank(workers[1].pid)
        /\ DeleteOne(1)
              => \A body \in ListPosts' \cup UNION {ListUserPosts(u)' : u \in UserIds} :
                    \A i \in 1..Len(body) : body[i].id # workers[1].pid
        /\ \A p \in 1..MaxFeedPosts :
              (p < nextPostId /\ p \notin PostIds) => p \notin PostIds'
      ]_vars

\* C7 witness: list_posts has answered with two posts created at different
\* times, the newer one first, the older one updated after its creation (it
\* carries the title of the form without a file, and a file).
C7_Witness ==
    /\ response.status = 200 /\ response.detail = "posts"
    /\ Len(response.body) = 2
    /\ response.body[1].created_at > response.body[2].created_at
    /\ response.body[2].title = "t1" /\ response.body[2].file_url # None

----------------------------------------------------------------------------
(* Claims about the life of a session token (under SpecSession) *)

\* C11: a correctly signed token without the reset flag resolves to its user
\* whenever the clock has not passed its expiry, whatever logout, update_profile
\* and reset_password have written since; a protected request presenting it
\* then enters its handler as that user; a protected request presenting a token
\* whose expiry has passed, or a token not signed with the server secret, is
\* answered 401 and writes nothing; and the clock never runs backwards, so an
\* expired token stays expired.
C11_SessionValidityIsSignatureAndExpiry ==
    /\ [](\A t \in tokens :
            (~t.reset /\ clock <= t.exp)
                => (t.user_id \in UserIds /\ GetCurrentUserSync(t) = t.user_id))
    /\ [][ /\ clock' >= clock
           /\ \A op \in AuthOps, t \in Presentable, name \in Names \cup {None} :
                 Begin(1, op, t, NoPost, NoForm, IF op = "update_profile" THEN name ELSE "")
                     => IF t.sig = "ok" /\ clock <= t.exp
                        THEN /\ workers'[1].pc = op
                             /\ workers'[1].user = t.user_id
                        ELSE /\ response' = Resp(401, "Could not validate credentials")
                             /\ workers'[1] = IdleWorker
                             /\ users' = users /\ posts' = posts
         ]_vars

\* C11 witness: the user has logged out, changed the name and had the password
\* reset, time has passed, and a request presenting the session token issued at
\* time 0 is inside its handler as that user.
C11_Witness ==
    /\ users[1].isOnline = "false"
    /\ users[1].name # "Ann"
    /\ users[1].password # HashPassword("pw1")
    /\ clock = SessionTTL
    /\ workers[1].pc = "me"
    /\ workers[1].tok = SessionTokenAt0(1)

----------------------------------------------------------------------------
(* Every post operation, one request at a time, over several posts; likes  *)
(* and comments go to the first posts.                                     *)

NextFrame ==
    \/ \E t \in Presentable, form \in Forms :
          /\ nextPostId <= MaxFeedPosts
          /\ Begin(1, "create_post", t, NoPost, form, "")
    \/ \E upload \in Uploads : CreatePost(1, upload)
    \/ \E t \in Presentable, pid \in 1..MaxPosts :
          Begin(1, "like_post", t, pid, NoForm, "")
    \/ LikeFind(1)
    \/ LikeUpdate(1)
    \/ LikeReturn(1)
    \/ \E t \in Presentable, pid \in 1..MaxPosts :
          Begin(1, "comment_post", t, pid, NoForm, "hi")
    \/ CommentFind(1)
    \/ CommentUpdate(1)
    \/ CommentReturn(1)
    \/ \E t \in Presentable, pid \in 1..MaxFeedPosts, form \in Forms :
          Begin(1, "update_post", t, pid, form, "")
    \/ UpdateFind(1)
    \/ \E upload \in Uploads : UpdateSet(1, upload)
    \/ UpdateReturn(1)
    \/ \E t \in Presentable, pid \in 1..MaxFeedPosts :
          Begin(1, "delete_post", t, pid, NoForm, "")
    \/ DeleteFind(1)
    \/ DeleteOne(1)

SpecFrame == InitPosts /\ [][NextFrame]_vars

----------------------------------------------------------------------------
(* Claims about the frame of update_post (under SpecFrame) *)

\* The fields of a post that update_post must leave alone.
Frame(post) ==
    [user_id |-> post.user_id, likes |-> post.likes, comments |-> post.comments,
     created_at |-> post.created_at, user_name |-> post.user_name,
     user_email |-> post.user_email]

\* The attachment fields of a post.
FileFields(post) ==
    [file_url |-> post.file_url, file_type |-> post.file_type,
     original_name |-> post.original_name]

\* C12: no step of update_post changes a user, adds or removes a post, or
\* changes a post other than its target; its write leaves the target's user_id,
\* likes, comments, created_at, user_name and user_email as they were, leaves
\* the attachment fields as they were when no file is sent, and sets title,
\* description, category and tags from the form; and no step of any operation
\* changes the user_id of a stored post.
C12_UpdatePostFrame ==
    [][ /\ (UpdateFind(1) \/ UpdateReturn(1)) => (posts' = posts /\ users' = users)
        /\ \A upload \in Uploads :
              UpdateSet(1, upload)
                  => LET pid == workers[1].pid
                         form == workers[1].form
                     IN /\ users' = users
                        /\ PostIds' = PostIds
                        /\ \A p \in PostIds \ {pid} : posts'[p] = posts[p]
                        /\ Stored(pid)
                              => /\ Frame(posts'[pid]) = Frame(posts[pid])
                                 /\ form.file = "none"
                                       => FileFields(posts'[pid]) = FileFields(posts[pid])
                                 /\ workers'[1].pc = "update_post_return"
                                       => /\ posts'[pid].title = form.title
                                          /\ posts'[pid].description = form.description
                                          /\ posts'[pid].category = form.category
                                          /\ posts'[pid].tags = ParseTags(form.tags)
        /\ \A p \in PostIds \cap PostIds' : posts'[p].user_id = posts[p].user_id
      ]_vars

\* C12 witness: update_post without a file has just written the new title to a
\* post that has a like, a comment and an attachment, next to another post.
C12_Witness ==
    /\ workers[1].pc = "update_post_return"
    /\ workers[1].pid = 1 /\ workers[1].form = FormA
    /\ PostIds = {1, 2}
    /\ posts[1].title = "t1"
    /\ posts[1].likes # <<>> /\ posts[1].comments # <<>>
    /\ posts[1].file_url # None

----------------------------------------------------------------------------
(* Claims about forgot_password (under Spec) *)

\* C13: every forgot_password call, for a registered or an unregistered email
\* and whatever the mail gateway does, answers 200 with the one fixed message
\* and changes no user and no post.
C13_ForgotPasswordGivesNoSignal ==
    [][ \A w \in Workers, email \in Emails, gateway \in {"unset", "sent", "smtp_error"} :
            ForgotPassword(w, email, gateway)
                => /\ response' = Resp(200, ForgotMessage)
                   /\ users' = users /\ posts' = posts
      ]_vars

----------------------------------------------------------------------------
(* Claims about requests racing with delete_post (under SpecPosts) *)

\* C14: an update_post whose target has been deleted since its ownership check
\* ends with 404, and its late write does not bring the post back; the
\* delete_one of a delete_post answers 204 and leaves the post absent, and a
\* delete_post that finds no post answers 404.
C14_UpdateAfterDeleteIsNotFound ==
    [][ \A w \in Workers :
          LET pid == workers[w].pid
          IN /\ \A upload \in Uploads :
                   (UpdateSet(w, upload) /\ ~Stored(pid)) => posts' = posts
             /\ (UpdateReturn(w) /\ ~Stored(pid)) => response'.status = 404
             /\ DeleteOne(w) => (response'.status = 204 /\ pid \notin PostIds')
             /\ (DeleteFind(w) /\ ~Stored(pid)) => response'.status = 404
      ]_vars

----------------------------------------------------------------------------
(* Toggles by clients that share a user: clients 2k-1 and 2k are two       *)
(* sessions of user k, each issuing its like_post calls on post 1 one      *)
(* after the other; the clients run concurrently.                          *)

\* The user client c is logged in as.
ToggleUser(c) == (c + 1) \div 2

ToggleUsers == {ToggleUser(c) : c \in Clients}

InitToggle ==
    /\ users = [c \in Clients |-> NewUser("Ann", ClientEmail(c), "pw1")]
    /\ \E liked \in SUBSET ToggleUsers :
          /\ posts = <<[NewPost(1, FormA) EXCEPT !.likes = SetToSeq(liked)]>>
          /\ hist = [before |-> SetToSeq(liked), calls |-> [c \in Clients |-> <<>>]]
    /\ nextPostId = 2
    /\ tokens = {SessionTokenAt0(u) : u \in ToggleUsers}
    /\ clock = 0
    /\ workers = [c \in Clients |-> IdleWorker]
    /\ response = NoResp

NextToggle ==
    \/ \E c \in Clients :
          /\ Len(CallsOf(c)) < MaxCalls
          /\ Begin(c, "like_post", SessionTokenAt0(ToggleUser(c)), 1, NoForm, "")
    \/ \E c \in Clients : LikeFind(c)
    \/ \E c \in Clients : LikeUpdate(c)
    \/ \E c \in Clients : LikeReturnLogged(c)

SpecToggle == InitToggle /\ [][NextToggle]_vars

----------------------------------------------------------------------------
(* Claims about the atomicity of like_post (under SpecToggle) *)

\* The completed calls of user u: pairs of client and position in its log.
CompletedBy(u) ==
    {ci \in Clients \X (1..MaxCalls) :
        ToggleUser(ci[1]) = u /\ ci[2] <= Len(CallsOf(ci[1]))}

\* C15: when no call is in flight, the outcome is that of the completed calls
\* run one at a time in some order: for every user u with k completed toggles,
\* u is in likes iff its initial membership was flipped an odd number of
\* times, and the liked flags returned to u are those of k alternating
\* toggles (the number of liked = TRUE answers is k/2 rounded up when u
\* started outside likes and rounded down when u started inside).
C15_TogglesLinearizable ==
    (\A c \in Clients : workers[c].pc = "idle")
        => \A u \in ToggleUsers :
              LET k == Cardinality(CompletedBy(u))
                  likedTrue == Cardinality({ci \in CompletedBy(u) :
                                               CallsOf(ci[1])[ci[2]].liked})
                  before == InSeq(u, hist.before)
              IN /\ InSeq(u, posts[1].likes) = (before # (k % 2 = 1))
                 /\ likedTrue = IF before THEN k \div 2 ELSE (k + 1) \div 2

----------------------------------------------------------------------------
(* Claims about like_post and comment_post on a missing post (under SpecPosts) *)

\* C16: like_post and comment_post whose first find_one finds no post answer
\* 404 and change nothing; no step of either adds a post; and a like_post or
\* comment_post whose update_one is applied when the post is gone does not go
\* on to its success response (from the positions like_post_return and
\* comment_post_return the handlers only answer 200).
C16_NoSuccessOnMissingPost ==
    [][ \A w \in Workers :
          LET pid == workers[w].pid
          IN /\ ((LikeFind(w) \/ CommentFind(w)) /\ ~Stored(pid))
                   => /\ response' = Resp(404, "Post not found")
                      /\ posts' = posts /\ users' = users
             /\ (LikeFind(w) \/ LikeUpdate(w) \/ LikeReturn(w)
                    \/ CommentFind(w) \/ CommentUpdate(w) \/ CommentReturn(w))
                   => PostIds' = PostIds
             /\ ((LikeUpdate(w) \/ CommentUpdate(w)) /\ ~Stored(pid))
                   => workers'[w].pc \notin {"like_post_return", "comment_post_return"}
      ]_vars

----------------------------------------------------------------------------
(* Claims about failed uploads (under SpecFeed) *)

\* C17: when a file is sent and its upload fails, create_post inserts no post
\* and update_post writes nothing to any post, and the call ends with 500.
C17_FailedUploadWritesNothing ==
    [][ /\ (CreatePost(1, "fail") /\ workers[1].form.file # "none")
              => /\ posts' = posts /\ nextPostId' = nextPostId /\ users' = users
                 /\ response' = Resp(500, "Internal Server Error")
                 /\ workers'[1] = IdleWorker
        /\ (UpdateSet(1, "fail") /\ workers[1].form.file # "none")
              => /\ posts' = posts /\ users' = users
                 /\ response' = Resp(500, "Internal Server Error")
                 /\ workers'[1] = IdleWorker
      ]_vars

\* C17 witness: a call has just ended with the failure of its upload while a
\* post created without a file is stored, still as it was created.
C17_Witness ==
    /\ response = Resp(500, "Internal Server Error")
    /\ workers[1].pc = "idle"
    /\ Stored(1)
    /\ Content(posts[1]) = Content(NewPost(1, FormA))

----------------------------------------------------------------------------
(* Tags: create_post and update_post by one author, the tags field drawn   *)
(* from every short string over a letter alphabet with comma and blank.    *)

MaxTagLen == 4

TagChars == {"a", "b", ",", " "}

\* The tags inputs: the strings of at most MaxTagLen characters.
TagInputs == UNION {[1..n -> TagChars] : n \in 0..MaxTagLen}

NextTags ==
    \/ \E tags \in TagInputs :
          /\ nextPostId <= MaxPosts
          /\ Begin(1, "create_post", SessionTokenAt0(1), NoPost,
                   [FormA EXCEPT !.tags = tags], "")
    \/ CreatePost(1, "ok")
    \/ \E tags \in TagInputs, pid \in 1..MaxPosts :
          Begin(1, "update_post", SessionTokenAt0(1), pid,
                [FormA EXCEPT !.tags = tags], "")
    \/ UpdateFind(1)
    \/ UpdateSet(1, "ok")
    \/ UpdateReturn(1)

SpecTags == InitPosts /\ [][NextTags]_vars

----------------------------------------------------------------------------
(* Claims about tags (under SpecTags) *)

RECURSIVE Dedup(_)
\* seq without the later occurrences of its entries.
Dedup(seq) ==
    IF seq = <<>> THEN <<>>
    ELSE LET init == Dedup(SubSeq(seq, 1, Len(seq) - 1))
             last == seq[Len(seq)]
         IN IF InSeq(last, init) THEN init ELSE Append(init, last)

\* A stored tags list is normal: no entry is empty, starts or ends with a
\* blank or holds a comma, and no entry occurs twice.
NormalTags(tags) ==
    /\ \A i \in 1..Len(tags) :
          /\ tags[i] # <<>>
          /\ Head(tags[i]) # " " /\ tags[i][Len(tags[i])] # " "
          /\ ~InSeq(",", tags[i])
    /\ NoDuplicates(tags)

\* C18: the tags create_post and update_post store for a tags input are
\* normal and are the entries of the input between commas, trimmed, without
\* the empty ones and without later duplicates, in the order of first
\* occurrence; an input of blanks and commas only stores the empty list.
C18_TagsNormalised ==
    [][ /\ CreatePost(1, "ok")
              => /\ NormalTags(posts'[nextPostId].tags)
                 /\ posts'[nextPostId].tags =
                        Dedup(SelectSeq([i \in 1..Len(Split(workers[1].form.tags, ",")) |->
                                            Strip(Split(workers[1].form.tags, ",")[i])],
                                        LAMBDA t : t # <<>>))
        /\ (UpdateSet(1, "ok") /\ Stored(workers[1].pid))
              => /\ NormalTags(posts'[workers[1].pid].tags)
                 /\ posts'[workers[1].pid].tags =
                        Dedup(SelectSeq([i \in 1..Len(Split(workers[1].form.tags, ",")) |->
                                            Strip(Split(workers[1].form.tags, ",")[i])],
                                        LAMBDA t : t # <<>>))
      ]_vars

----------------------------------------------------------------------------
(* The author snapshot: one author who edits the profile name, creates     *)
(* posts and reads the feed, one request at a time.                        *)

\* The names update_profile is called with; a name may be the empty string.
ProfileNames == {"", "Ann", "Bob"}

InitSnapshot ==
    /\ users = <<NewUser("Ann", "a@x.com", "pw1")>>
    /\ posts = <<>>
    /\ nextPostId = 1
    /\ tokens = {SessionTokenAt0(1)}
    /\ clock = 0
    /\ workers = [w \in Workers |-> IdleWorker]
    /\ response = NoResp
    /\ hist = <<>>

NextSnapshot ==
    \/ \E name \in ProfileNames :
          Begin(1, "update_profile", SessionTokenAt0(1), NoPost, NoForm, name)
    \/ UpdateProfile(1)
    \/ UpdateProfileRead(1)
    \/ /\ nextPostId <= MaxFeedPosts
       /\ Begin(1, "create_post", SessionTokenAt0(1), NoPost, FormA, "")
    \/ CreatePost(1, "ok")
    \/ ListPostsReq(1)
    \/ \E user_id \in UserIds : ListUserPostsReq(1, user_id)

SpecSnapshot == InitSnapshot /\ [][NextSnapshot]_vars

----------------------------------------------------------------------------
(* Claims about the author snapshot (under SpecSnapshot) *)

\* Every entry of a listing carries the author name and email stored in its post.
ShowsStoredSnapshot(body) ==
    \A i \in 1..Len(body) :
        /\ body[i].user_name = posts[body[i].id].user_name
        /\ body[i].user_email = posts[body[i].id].user_email

\* C19: create_post stores the author's name and email as they are when it
\* runs; no later step changes the stored name and email of a post, and
\* update_profile writes no post; and list_posts and list_user_posts return
\* for every post exactly that stored name and email, whatever the author's
\* profile says now, also when the stored name is the empty string.
C19_SnapshotNeverRefreshed ==
    [][ /\ CreatePost(1, "ok")
              => /\ posts'[nextPostId].user_name = users[workers[1].user].name
                 /\ posts'[nextPostId].user_email = users[workers[1].user].email
        /\ \A p \in PostIds \cap PostIds' :
              /\ posts'[p].user_name = posts[p].user_name
              /\ posts'[p].user_email = posts[p].user_email
        /\ (UpdateProfile(1) \/ UpdateProfileRead(1)) => posts' = posts
        /\ ListPostsReq(1) => ShowsStoredSnapshot(response'.body)
        /\ \A u \in UserIds :
              ListUserPostsReq(1, u) => ShowsStoredSnapshot(response'.body)
      ]_vars

----------------------------------------------------------------------------
(* Claims about the response of like_post (under SpecPosts) *)

\* C20: in every 200 response of like_post the liked flag is true exactly
\* when the calling user is in the returned likes.
C20_LikeResponseConsistent ==
    [][ \A w \in Workers :
            LikeReturn(w)
                => (response'.liked <=> InSeq(workers[w].user, response'.likes))
      ]_vars

====
